---- MODULE Spec2Model ----
(***************************************************************************)
(* Model of ingest/neo4j_loader_dynamic.py: the record builder             *)
(* (build_records and its helpers) and the graph upsert engine (upsert,    *)
(* its setup statements and its six store calls), run by main.             *)
(*                                                                         *)
(* Strings are sequences of one-character strings, so that strip, lower,   *)
(* the regular expressions and the concatenation of the stub ids are       *)
(* computed character by character.  None / NaN / a missing property is    *)
(* NULL, a sequence no string of characters equals.                        *)
(***************************************************************************)
EXTENDS Integers, Sequences, FiniteSets, TLC

NULL == <<"NULL">>

\* ---------------------------------------------------------------------
\* String literals of the source
\* ---------------------------------------------------------------------

H_Emp_Id == <<"E","m","p"," ","I","d">>
H_Emp_Id_sp == <<"E","m","p"," ","I","d"," ">>
H_Employee_Id == <<"E","m","p","l","o","y","e","e"," ","I","d">>
H_EmpID == <<"E","m","p","I","D">>
H_Emp_Name == <<"E","m","p"," ","N","a","m","e">>
H_Employee_Name == <<"E","m","p","l","o","y","e","e"," ","N","a","m","e">>
H_Name == <<"N","a","m","e">>
H_Gender == <<"G","e","n","d","e","r">>
H_Date_of_Joining_DDMMYY == <<"D","a","t","e"," ","o","f"," ","J","o","i","n","i","n","g"," ","(","D","D","M","M","Y","Y",")">>
H_Date_of_Joining == <<"D","a","t","e"," ","o","f"," ","J","o","i","n","i","n","g">>
H_DOJ == <<"D","O","J">>
H_Designation == <<"D","e","s","i","g","n","a","t","i","o","n">>
H_Title == <<"T","i","t","l","e">>
H_Role == <<"R","o","l","e">>
H_Reporting_Manager == <<"R","e","p","o","r","t","i","n","g"," ","M","a","n","a","g","e","r">>
H_Manager == <<"M","a","n","a","g","e","r">>
H_Reports_To == <<"R","e","p","o","r","t","s"," ","T","o">>
H_Lead_Reporting == <<"L","e","a","d"," ","R","e","p","o","r","t","i","n","g">>
H_Lead == <<"L","e","a","d">>
H_Project_Lead == <<"P","r","o","j","e","c","t"," ","L","e","a","d">>
H_Primary_Skill == <<"P","r","i","m","a","r","y"," ","S","k","i","l","l">>
H_Primary_skill == <<"P","r","i","m","a","r","y"," ","s","k","i","l","l">>
H_Secondary_Skill == <<"S","e","c","o","n","d","a","r","y"," ","S","k","i","l","l">>
H_Secondary_skill == <<"S","e","c","o","n","d","a","r","y"," ","s","k","i","l","l">>
H_Current_Project == <<"C","u","r","r","e","n","t"," ","P","r","o","j","e","c","t">>
H_Project == <<"P","r","o","j","e","c","t">>
H_Team == <<"T","e","a","m">>
H_Department == <<"D","e","p","a","r","t","m","e","n","t">>
H_Sr_No == <<"S","r"," ","N","o">>
H_S_No == <<"S",".","N","o">>
H_Sr_dot_No == <<"S","r","."," ","N","o">>
H_Serial == <<"S","e","r","i","a","l">>
H_Serial_No == <<"S","e","r","i","a","l"," ","N","o">>

\* property keys and literals of the Cypher statements
K_empId == <<"e","m","p","I","d">>
K_name == <<"n","a","m","e">>
K_gender == <<"g","e","n","d","e","r">>
K_designation == <<"d","e","s","i","g","n","a","t","i","o","n">>
K_doj == <<"d","o","j">>
K_type == <<"t","y","p","e">>
K_since == <<"s","i","n","c","e">>
S_primary == <<"p","r","i","m","a","r","y">>
S_secondary == <<"s","e","c","o","n","d","a","r","y">>
S_stub_manager == <<"s","t","u","b",":",":","m","a","n","a","g","e","r",":",":">>
S_stub_lead == <<"s","t","u","b",":",":","l","e","a","d",":",":">>
S_sep == <<":",":">>
S_empty == <<>>

\* ---------------------------------------------------------------------
\* Helpers (character level)
\* ---------------------------------------------------------------------

Whitespace == {" ", "\t", "\n"}
UpperChars == <<"A","B","C","D","E","F","G","H","I","J","K","L","M","N","O","P","Q","R","S","T","U","V","W","X","Y","Z">>
LowerChars == <<"a","b","c","d","e","f","g","h","i","j","k","l","m","n","o","p","q","r","s","t","u","v","w","x","y","z">>
DigitChars == <<"0","1","2","3","4","5","6","7","8","9">>

Range(s) == {s[i] : i \in DOMAIN s}

IsAlnum(c) == c \in Range(UpperChars) \cup Range(LowerChars) \cup Range(DigitChars)

\* str.lower(), one character
LowerChar(c) ==
  IF c \in Range(UpperChars)
    THEN LowerChars[CHOOSE i \in DOMAIN UpperChars : UpperChars[i] = c]
    ELSE c

lower(s) == [i \in DOMAIN s |-> LowerChar(s[i])]

RECURSIVE LStrip(_, _)
LStrip(s, chars) ==
  IF s # <<>> /\ Head(s) \in chars THEN LStrip(Tail(s), chars) ELSE s

RECURSIVE RStrip(_, _)
RStrip(s, chars) ==
  IF s # <<>> /\ s[Len(s)] \in chars THEN RStrip(SubSeq(s, 1, Len(s) - 1), chars) ELSE s

\* str.strip() and str.strip(chars)
strip(s) == RStrip(LStrip(s, Whitespace), Whitespace)
stripChars(s, chars) == RStrip(LStrip(s, chars), chars)

\* str.replace(c, "") for a single character c
RemoveChar(s, c) == SelectSeq(s, LAMBDA x : x # c)

\* re.sub(<class>+, rep, s): every maximal run of characters of the class
\* becomes the single character rep
RECURSIVE SubRuns(_, _, _)
SubRuns(s, InClass(_), rep) ==
  IF s = <<>> THEN <<>>
  ELSE IF InClass(Head(s))
    THEN IF Len(s) > 1 /\ InClass(s[2])
           THEN SubRuns(Tail(s), InClass, rep)
           ELSE <<rep>> \o SubRuns(Tail(s), InClass, rep)
    ELSE <<Head(s)>> \o SubRuns(Tail(s), InClass, rep)

IsSpace(c) == c \in Whitespace
NotAlnum(c) == ~IsAlnum(c)

\* norm_col: re.sub(r"\s+", " ", c.strip())
norm_col(c) == SubRuns(strip(c), IsSpace, " ")

\* norm_str: None/NaN -> None, else the trimmed string, None when empty
norm_str(x) ==
  IF x = NULL THEN NULL
  ELSE LET s == strip(x) IN IF s # <<>> THEN s ELSE NULL

\* snake: strip, drop parentheses, runs of non-alphanumerics -> "_",
\* strip("_"), lower
snake(s) ==
  LET s1 == RemoveChar(RemoveChar(strip(s), "("), ")")
      s2 == stripChars(SubRuns(s1, NotAlnum, "_"), {"_"})
  IN lower(s2)

\* ---------------------------------------------------------------------
\* Field parser: dates
\* ---------------------------------------------------------------------

IsDigit(c) == c \in Range(DigitChars)
DigitVal(c) == (CHOOSE i \in DOMAIN DigitChars : DigitChars[i] = c) - 1

RECURSIVE ToInt(_)
ToInt(s) == IF s = <<>> THEN 0 ELSE 10 * ToInt(SubSeq(s, 1, Len(s) - 1)) + DigitVal(s[Len(s)])

AllDigits(s) == \A i \in DOMAIN s : IsDigit(s[i])

IsLeap(y) == (y % 4 = 0 /\ y % 100 # 0) \/ y % 400 = 0
DaysInMonth(y, m) ==
  IF m = 2 THEN (IF IsLeap(y) THEN 29 ELSE 28)
  ELSE IF m \in {4, 6, 9, 11} THEN 30 ELSE 31
ValidDate(y, m, d) == m \in 1..12 /\ d >= 1 /\ d <= DaysInMonth(y, m)

Digit(n) == DigitChars[n + 1]
Pad2(n) == <<Digit(n \div 10), Digit(n % 10)>>
Pad4(n) == <<Digit(n \div 1000), Digit((n \div 100) % 10), Digit((n \div 10) % 10), Digit(n % 10)>>
\* date.isoformat()
isoformat(y, m, d) == Pad4(y) \o <<"-">> \o Pad2(m) \o <<"-">> \o Pad2(d)

\* pd.to_datetime(s, dayfirst=..., errors="coerce") followed by
\* dt.date().isoformat().  The parser is pandas', not the repository's: it
\* is modelled for text of the shape YYYY-MM-DD (read the same way whatever
\* dayfirst is); any other text is taken as unparseable (NaT, here NULL).
to_datetime(s, dayfirst) ==
  IF /\ Len(s) = 10 /\ s[5] = "-" /\ s[8] = "-"
     /\ AllDigits(SubSeq(s, 1, 4)) /\ AllDigits(SubSeq(s, 6, 7)) /\ AllDigits(SubSeq(s, 9, 10))
     /\ ValidDate(ToInt(SubSeq(s, 1, 4)), ToInt(SubSeq(s, 6, 7)), ToInt(SubSeq(s, 9, 10)))
  THEN s
  ELSE NULL

\* parse_date_flex: ISO 'YYYY-MM-DD' or None
parse_date_flex(x) ==
  IF x = NULL THEN NULL
  ELSE LET s == strip(x) IN
    IF s = <<>> THEN NULL
    ELSE IF to_datetime(s, TRUE) # NULL THEN to_datetime(s, TRUE)
    ELSE IF to_datetime(s, FALSE) # NULL THEN to_datetime(s, FALSE)
    ELSE LET s2 == RemoveChar(RemoveChar(RemoveChar(RemoveChar(s, "/"), "-"), "."), " ") IN
      IF Len(s2) = 6 /\ AllDigits(s2)
      THEN LET dd == ToInt(SubSeq(s2, 1, 2))
               mm == ToInt(SubSeq(s2, 3, 4))
               yy == ToInt(SubSeq(s2, 5, 6))
               year == IF yy <= 69 THEN 2000 + yy ELSE 1900 + yy
           IN IF ValidDate(year, mm, dd) THEN isoformat(year, mm, dd) ELSE NULL
      ELSE NULL

\* ---------------------------------------------------------------------
\* Record builder
\* ---------------------------------------------------------------------

\* col_map_variants: canonical field -> accepted headers
col_map_variants == <<
  <<"emp_id", <<H_Emp_Id, H_Emp_Id_sp, H_Employee_Id, H_EmpID>> >>,
  <<"name", <<H_Emp_Name, H_Employee_Name, H_Name>> >>,
  <<"gender", <<H_Gender>> >>,
  <<"doj", <<H_Date_of_Joining_DDMMYY, H_Date_of_Joining, H_DOJ>> >>,
  <<"designation", <<H_Designation, H_Title, H_Role>> >>,
  <<"manager_name", <<H_Reporting_Manager, H_Manager, H_Reports_To>> >>,
  <<"lead_name", <<H_Lead_Reporting, H_Lead, H_Project_Lead>> >>,
  <<"primary_skill", <<H_Primary_Skill, H_Primary_skill>> >>,
  <<"secondary_skill", <<H_Secondary_Skill, H_Secondary_skill>> >>,
  <<"project", <<H_Current_Project, H_Project>> >>,
  <<"team", <<H_Team, H_Department>> >> >>

\* inv: normalized header -> canonical field (the inverted mapping; a later
\* entry of the table overwrites an earlier one with the same header)
inv == 
  [h \in UNION {{norm_col(col_map_variants[i][2][j]) : j \in DOMAIN col_map_variants[i][2]}
                  : i \in DOMAIN col_map_variants} |->
     LET hits == {i \in DOMAIN col_map_variants :
                    \E j \in DOMAIN col_map_variants[i][2] : norm_col(col_map_variants[i][2][j]) = h}
     IN col_map_variants[CHOOSE i \in hits : \A k \in hits : k <= i][1]]

\* inv.get(h): the canonical field, or "None"
inv_get(h) == IF h \in DOMAIN inv THEN inv[h] ELSE "None"

\* the record a row starts as
EmptyRec ==
  [empId |-> NULL, name |-> NULL, gender |-> NULL, doj |-> NULL, designation |-> NULL,
   managerName |-> NULL, leadName |-> NULL, primarySkill |-> NULL, secondarySkill |-> NULL,
   project |-> NULL, team |-> NULL, extra |-> <<>>]

\* d[k] = v on a mapping kept as a function
MapPut(m, k, v) == [x \in DOMAIN m \cup {k} |-> IF x = k THEN v ELSE m[x]]

\* one (column, value) item of a row applied to the record being built
SetField(rec, c, v) ==
  LET key == inv_get(norm_col(c)) IN
  CASE key = "None" ->
         LET val == norm_str(v) IN
         IF val # NULL THEN [rec EXCEPT !.extra = MapPut(rec.extra, snake(c), val)] ELSE rec
    [] key = "emp_id" -> [rec EXCEPT !.empId = norm_str(v)]
    [] key = "name" -> [rec EXCEPT !.name = norm_str(v)]
    [] key = "gender" -> [rec EXCEPT !.gender = norm_str(v)]
    [] key = "doj" -> [rec EXCEPT !.doj = parse_date_flex(v)]
    [] key = "designation" -> [rec EXCEPT !.designation = norm_str(v)]
    [] key = "manager_name" -> [rec EXCEPT !.managerName = norm_str(v)]
    [] key = "lead_name" -> [rec EXCEPT !.leadName = norm_str(v)]
    [] key = "primary_skill" ->
         LET vs == norm_str(v) IN [rec EXCEPT !.primarySkill = IF vs # NULL THEN lower(vs) ELSE NULL]
    [] key = "secondary_skill" ->
         LET vs == norm_str(v) IN [rec EXCEPT !.secondarySkill = IF vs # NULL THEN lower(vs) ELSE NULL]
    [] key = "project" -> [rec EXCEPT !.project = norm_str(v)]
    [] key = "team" -> [rec EXCEPT !.team = norm_str(v)]

\* the loop over row.items(), columns left to right
RECURSIVE RowItems(_, _, _, _)
RowItems(rec, columns, row, i) ==
  IF i > Len(columns) THEN rec
  ELSE RowItems(SetField(rec, columns[i], row[i]), columns, row, i + 1)

\* the columns of df after df.columns = [norm_col(c) for c in df.columns]
NormColumns(df) == [i \in DOMAIN df.columns |-> norm_col(df.columns[i])]

\* ignore_cols: the index-style headers
ignore_cols == {H_Sr_No, H_S_No, H_Sr_dot_No, H_Serial, H_Serial_No}

\* passthrough_cols: the columns no alias matches, less the index-style
\* ones. build_records computes the set and reads it nowhere: the loop over
\* row.items() below asks inv alone.
passthrough_cols(df) ==
  {c \in Range(NormColumns(df)) \ DOMAIN inv : norm_col(c) \notin ignore_cols}

\* the record built from one row of df, before the validity test
RowRecord(df, i) == RowItems(EmptyRec, NormColumns(df), df.data[i], 1)

\* Keep with the test of the name forgotten (C2 does not hold of it)
KeepIdOnly(rec) == rec.empId # NULL

\* "Only keep rows with both Emp Id + Emp Name"
Keep(rec) == rec.empId # NULL /\ rec.name # NULL

\* build_records: the kept records, in row order
build_records(df) ==
  LET all == [i \in DOMAIN df.data |-> RowRecord(df, i)]
  IN SelectSeq(all, Keep)

\* ---------------------------------------------------------------------
\* The graph store: nodes with a label and properties, relationships with
\* a type and properties, and the schema (constraints and indexes).
\* A graph is [nodes |-> sequence of nodes, rels |-> sequence of
\* relationships]; a node or relationship is known by its position.
\* ---------------------------------------------------------------------

EmptyGraph == [nodes |-> <<>>, rels |-> <<>>]

\* n.k, NULL when the property is missing
Prop(props, k) == IF k \in DOMAIN props THEN props[k] ELSE NULL

\* SET n.k = v; setting NULL removes the property
SetProp(props, k, v) ==
  IF v = NULL THEN [x \in DOMAIN props \ {k} |-> props[x]] ELSE MapPut(props, k, v)

\* SET n += m: the keys of m are added or overwritten, the others kept
PlusEq(props, m) == [x \in DOMAIN props \cup DOMAIN m |-> IF x \in DOMAIN m THEN m[x] ELSE props[x]]

\* coalesce(a, b)
coalesce(a, b) == IF a # NULL THEN a ELSE b

\* date(s): the temporal value of an ISO string, distinct from the string
date(s) == <<"date">> \o s

RECURSIVE FoldSeq(_, _, _)
FoldSeq(Op(_, _), acc, s) ==
  IF s = <<>> THEN acc ELSE FoldSeq(Op, Op(acc, Head(s)), Tail(s))

RECURSIVE SetToSeq(_)
SetToSeq(S) ==
  IF S = {} THEN <<>>
  ELSE LET m == CHOOSE x \in S : \A y \in S : x <= y IN <<m>> \o SetToSeq(S \ {m})

\* the nodes (label {key: val}) of g, in creation order
MatchNodes(g, label, key, val) ==
  SetToSeq({i \in DOMAIN g.nodes :
              g.nodes[i].label = label /\ val # NULL /\ Prop(g.nodes[i].props, key) = val})

\* the relationships (from)-[:type props]->(to) of g, in creation order
MatchRels(g, type, from, to, props) ==
  SetToSeq({i \in DOMAIN g.rels :
              /\ g.rels[i].type = type /\ g.rels[i].from = from /\ g.rels[i].to = to
              /\ \A k \in DOMAIN props : Prop(g.rels[i].props, k) = props[k]})

\* SETUP_STATEMENTS, run one by one
SETUP_STATEMENTS == <<
  [name |-> "emp_id", unique |-> TRUE, label |-> "Employee", key |-> K_empId],
  [name |-> "skill_name", unique |-> TRUE, label |-> "Skill", key |-> K_name],
  [name |-> "project_name", unique |-> TRUE, label |-> "Project", key |-> K_name],
  [name |-> "emp_name", unique |-> FALSE, label |-> "Employee", key |-> K_name],
  [name |-> "team_name", unique |-> FALSE, label |-> "Team", key |-> K_name] >>

\* two nodes of the graph break the uniqueness a statement requires
HasDuplicates(g, stmt) ==
  \E i, j \in DOMAIN g.nodes :
     /\ i # j
     /\ g.nodes[i].label = stmt.label /\ g.nodes[j].label = stmt.label
     /\ Prop(g.nodes[i].props, stmt.key) # NULL
     /\ Prop(g.nodes[i].props, stmt.key) = Prop(g.nodes[j].props, stmt.key)

\* the store refuses a new node that repeats a value a uniqueness
\* constraint of the schema covers
ConstraintViolation(g, schema, label, props) ==
  \E i \in DOMAIN SETUP_STATEMENTS :
     LET stmt == SETUP_STATEMENTS[i] IN
     /\ stmt.name \in schema /\ stmt.unique /\ stmt.label = label
     /\ MatchNodes(g, label, stmt.key, Prop(props, stmt.key)) # <<>>

\* A store call works on a table of bindings [r, e, n, w]: the row, the
\* matched Employee, the merged other node, the merged relationship
\* (0 = not bound).  acc = [ok, g, table]: ok turns FALSE when the store
\* raises.
Binding(r) == [r |-> r, e |-> 0, n |-> 0, w |-> 0]
Acc(g) == [ok |-> TRUE, g |-> g, table |-> <<>>]

\* MATCH (e:Employee {empId:r.empId}) for the rows of a table
MatchEmployee(g, rows) ==
  FoldSeq(LAMBDA t, r :
            LET m == MatchNodes(g, "Employee", K_empId, r.empId)
            IN t \o [i \in DOMAIN m |-> [Binding(r) EXCEPT !.e = m[i]]],
          <<>>, rows)

\* MERGE (n:label {key: val}) ON CREATE SET n += onCreate, for one binding
MergeNode(acc, schema, b, label, key, val, onCreate) ==
  IF ~acc.ok THEN acc
  ELSE IF val = NULL THEN [acc EXCEPT !.ok = FALSE]
  ELSE LET m == MatchNodes(acc.g, label, key, val)
           props == PlusEq(MapPut(<<>>, key, val), onCreate)
       IN IF m # <<>>
            THEN [acc EXCEPT !.table = @ \o [i \in DOMAIN m |-> [b EXCEPT !.n = m[i]]]]
          ELSE IF ConstraintViolation(acc.g, schema, label, props)
            THEN [acc EXCEPT !.ok = FALSE]
          ELSE [acc EXCEPT !.g.nodes = Append(@, [label |-> label, props |-> props]),
                           !.table = Append(@, [b EXCEPT !.n = Len(acc.g.nodes) + 1])]

\* MERGE (e)-[w:type props]->(n), for one binding
MergeRel(acc, b, type, props) ==
  IF ~acc.ok THEN acc
  ELSE LET m == MatchRels(acc.g, type, b.e, b.n, props)
       IN IF m # <<>>
            THEN [acc EXCEPT !.table = @ \o [i \in DOMAIN m |-> [b EXCEPT !.w = m[i]]]]
          ELSE [acc EXCEPT !.g.rels = Append(@, [type |-> type, from |-> b.e, to |-> b.n, props |-> props]),
                           !.table = Append(@, [b EXCEPT !.w = Len(acc.g.rels) + 1])]

\* the outcome of a store call: the new graph, or the old one when the
\* call raised (its transaction is rolled back)
Outcome(g, acc) == [ok |-> acc.ok, g |-> IF acc.ok THEN acc.g ELSE g]

\* a clause run over every binding of the table the previous clause left
Clause(acc, Op(_, _)) == FoldSeq(Op, [acc EXCEPT !.table = <<>>], acc.table)

\* ---------------------------------------------------------------------
\* upsert: the six store calls.  Each is one statement, run clause by
\* clause over the whole batch; Phase(g, schema, rows) is [ok, g].
\* ---------------------------------------------------------------------

\* EmployeesMerge merging on the name, MERGE (e:Employee {name:r.name})
\* ON CREATE SET e.empId = r.empId: a stub would then be resolved by the
\* real row (C4 as amended does not hold of it)
EmployeesMergeByName(acc, schema, r) ==
  IF ~acc.ok THEN acc
  ELSE IF r.name = NULL THEN [acc EXCEPT !.ok = FALSE]
  ELSE LET m == MatchNodes(acc.g, "Employee", K_name, r.name)
           props == SetProp(MapPut(<<>>, K_name, r.name), K_empId, r.empId)
       IN IF m = <<>>
            THEN [acc EXCEPT !.g.nodes = Append(@, [label |-> "Employee", props |-> props]),
                             !.table = Append(@, [Binding(r) EXCEPT !.e = Len(acc.g.nodes) + 1])]
            ELSE [acc EXCEPT !.table = @ \o [i \in DOMAIN m |-> [Binding(r) EXCEPT !.e = m[i]]]]

\* MERGE (e:Employee {empId:r.empId})
\*   ON CREATE SET e.name = r.name
\*   ON MATCH  SET e.name = coalesce(r.name, e.name)
EmployeesMerge(acc, schema, r) ==
  IF ~acc.ok THEN acc
  ELSE IF r.empId = NULL THEN [acc EXCEPT !.ok = FALSE]
  ELSE LET m == MatchNodes(acc.g, "Employee", K_empId, r.empId)
           props == SetProp(MapPut(<<>>, K_empId, r.empId), K_name, r.name)
       IN IF m = <<>>
            THEN IF ConstraintViolation(acc.g, schema, "Employee", props)
                   THEN [acc EXCEPT !.ok = FALSE]
                   ELSE [acc EXCEPT !.g.nodes = Append(@, [label |-> "Employee", props |-> props]),
                                    !.table = Append(@, [Binding(r) EXCEPT !.e = Len(acc.g.nodes) + 1])]
            ELSE [acc EXCEPT
                    !.g.nodes = [i \in DOMAIN @ |->
                       IF i \in Range(m)
                         THEN [@[i] EXCEPT !.props = SetProp(@, K_name, coalesce(r.name, Prop(@, K_name)))]
                         ELSE @[i]],
                    !.table = @ \o [i \in DOMAIN m |-> [Binding(r) EXCEPT !.e = m[i]]]]

\* EmployeesSetProps with e.doj = date(r.doj) whatever r.doj is (C5 as
\* amended does not hold of it)
EmployeesSetPropsOverwriteDoj(props, r) ==
  LET p1 == SetProp(props, K_gender, r.gender)
      p2 == SetProp(p1, K_designation, r.designation)
      p3 == SetProp(p2, K_doj, IF r.doj = NULL THEN NULL ELSE date(r.doj))
  IN PlusEq(p3, r.extra)

\* SET e.gender = r.gender, e.designation = r.designation,
\*     e.doj = CASE WHEN r.doj IS NULL THEN e.doj ELSE date(r.doj) END,
\*     e += r.extra
EmployeesSetProps(props, r) ==
  LET p1 == SetProp(props, K_gender, r.gender)
      p2 == SetProp(p1, K_designation, r.designation)
      p3 == SetProp(p2, K_doj, IF r.doj = NULL THEN Prop(p2, K_doj) ELSE date(r.doj))
  IN PlusEq(p3, r.extra)

EmployeesSet(acc, b) ==
  [acc EXCEPT !.g.nodes[b.e].props = EmployeesSetProps(@, b.r), !.table = Append(@, b)]

\* Employees + dynamic extra properties
PhaseEmployees(g, schema, rows) ==
  LET a1 == FoldSeq(LAMBDA acc, r : EmployeesMerge(acc, schema, r), Acc(g), rows)
      a2 == IF a1.ok THEN Clause(a1, EmployeesSet) ELSE a1
  IN Outcome(g, a2)

\* WITH r WHERE r.x IS NOT NULL AND r.x <> ""
NonEmpty(v) == v # NULL /\ v # S_empty

\* Optional Team link
PhaseTeam(g, schema, rows) ==
  LET a0 == [Acc(g) EXCEPT !.table = MatchEmployee(g, SelectSeq(rows, LAMBDA r : NonEmpty(r.team)))]
      a1 == Clause(a0, LAMBDA acc, b : MergeNode(acc, schema, b, "Team", K_name, b.r.team, <<>>))
      a2 == Clause(a1, LAMBDA acc, b : MergeRel(acc, b, "WORKS_IN", <<>>))
  IN Outcome(g, a2)

\* "stub::manager::" + r.empId + "::" + r.managerName
StubId(prefix, empId, name) == prefix \o empId \o S_sep \o name

\* Manager edges
PhaseManager(g, schema, rows) ==
  LET a0 == [Acc(g) EXCEPT !.table = MatchEmployee(g, SelectSeq(rows, LAMBDA r : NonEmpty(r.managerName)))]
      a1 == Clause(a0, LAMBDA acc, b :
               MergeNode(acc, schema, b, "Employee", K_name, b.r.managerName,
                         MapPut(<<>>, K_empId, StubId(S_stub_manager, b.r.empId, b.r.managerName))))
      a2 == Clause(a1, LAMBDA acc, b : MergeRel(acc, b, "REPORTS_TO", <<>>))
  IN Outcome(g, a2)

\* Lead edges
PhaseLead(g, schema, rows) ==
  LET a0 == [Acc(g) EXCEPT !.table = MatchEmployee(g, SelectSeq(rows, LAMBDA r : NonEmpty(r.leadName)))]
      a1 == Clause(a0, LAMBDA acc, b :
               MergeNode(acc, schema, b, "Employee", K_name, b.r.leadName,
                         MapPut(<<>>, K_empId, StubId(S_stub_lead, b.r.empId, b.r.leadName))))
      a2 == Clause(a1, LAMBDA acc, b : MergeRel(acc, b, "LEAD_REPORTING", <<>>))
  IN Outcome(g, a2)

\* FOREACH (_ IN CASE WHEN skill IS NULL THEN [] ELSE [1] END |
\*   MERGE (s:Skill {name:skill})  MERGE (e)-[:HAS_SKILL {type:kind}]->(s))
\* for one binding; the table is passed on unchanged
ForeachSkill(acc, schema, b, skill, kind) ==
  IF ~acc.ok THEN acc
  ELSE IF skill = NULL THEN [acc EXCEPT !.table = Append(@, b)]
  ELSE LET a1 == MergeNode([acc EXCEPT !.table = <<>>], schema, b, "Skill", K_name, skill, <<>>)
           a2 == Clause(a1, LAMBDA x, y : MergeRel(x, y, "HAS_SKILL", MapPut(<<>>, K_type, kind)))
       IN [a2 EXCEPT !.table = Append(acc.table, b)]

\* Skills
PhaseSkills(g, schema, rows) ==
  LET a0 == [Acc(g) EXCEPT !.table = MatchEmployee(g, rows)]
      a1 == Clause(a0, LAMBDA acc, b : ForeachSkill(acc, schema, b, b.r.primarySkill, S_primary))
      a2 == Clause(a1, LAMBDA acc, b : ForeachSkill(acc, schema, b, b.r.secondarySkill, S_secondary))
  IN Outcome(g, a2)

\* SinceValue without the coalesce, SET w.since = date(r.doj) (C6 does not
\* hold of it)
SinceValueOverwritten(since, doj) == IF doj = NULL THEN NULL ELSE date(doj)

\* SinceValue that never takes the row's date (C7 as amended does not hold
\* of it)
SinceValueKept(since, doj) == since

\* SET w.since = coalesce(w.since, CASE WHEN r.doj IS NULL THEN NULL ELSE date(r.doj) END)
SinceValue(since, doj) == coalesce(since, IF doj = NULL THEN NULL ELSE date(doj))

ProjectsSet(acc, b) ==
  [acc EXCEPT !.g.rels[b.w].props = SetProp(@, K_since, SinceValue(Prop(@, K_since), b.r.doj)),
              !.table = Append(@, b)]

\* Projects
PhaseProjects(g, schema, rows) ==
  LET a0 == [Acc(g) EXCEPT !.table = MatchEmployee(g, SelectSeq(rows, LAMBDA r : NonEmpty(r.project)))]
      a1 == Clause(a0, LAMBDA acc, b : MergeNode(acc, schema, b, "Project", K_name, b.r.project, <<>>))
      a2 == Clause(a1, LAMBDA acc, b : MergeRel(acc, b, "WORKS_ON", <<>>))
      a3 == IF a2.ok THEN Clause(a2, ProjectsSet) ELSE a2
  IN Outcome(g, a3)

\* the store calls of upsert, in the order of the code
Phases == <<"employees", "team", "manager", "lead", "skills", "projects">>

Phase(k, g, schema, rows) ==
  CASE k = "employees" -> PhaseEmployees(g, schema, rows)
    [] k = "team" -> PhaseTeam(g, schema, rows)
    [] k = "manager" -> PhaseManager(g, schema, rows)
    [] k = "lead" -> PhaseLead(g, schema, rows)
    [] k = "skills" -> PhaseSkills(g, schema, rows)
    [] k = "projects" -> PhaseProjects(g, schema, rows)

\* the store calls from the i-th on, stopping at the first that raises
RECURSIVE RunPhases(_, _, _, _)
RunPhases(i, g, schema, rows) ==
  IF i > Len(Phases) THEN [ok |-> TRUE, g |-> g]
  ELSE LET res == Phase(Phases[i], g, schema, rows)
       IN IF res.ok THEN RunPhases(i + 1, res.g, schema, rows) ELSE res

\* ---------------------------------------------------------------------
\* Input sheets: the cells pd.read_excel(dtype=str) hands to main, text or
\* NULL (an empty cell)
\* ---------------------------------------------------------------------

V_E1 == <<"E","1">>
V_E1_padded == <<" ","E","1"," ">>
V_E2 == <<"E","2">>
V_blank == <<" "," ">>
V_Alice == <<"A","l","i","c","e">>
V_Bob_Lee == <<"B","o","b"," ","L","e","e">>
V_Carol == <<"C","a","r","o","l">>
V_Zed == <<"Z","e","d">>
V_F == <<"F">>
V_X == <<"X">>
V_Dev == <<"D","e","v">>
V_Python == <<"P","y","t","h","o","n">>
V_python == <<"p","y","t","h","o","n">>
V_P1 == <<"P","1">>
V_T1 == <<"T","1">>
V_2024_08_15 == <<"2","0","2","4","-","0","8","-","1","5">>
V_1987_05_02 == <<"1","9","8","7","-","0","5","-","0","2">>
H_GENDER == <<"G","E","N","D","E","R">>
V_stub_manager_E1_Bob_Lee == <<"s","t","u","b",":",":","m","a","n","a","g","e","r",":",":","E","1",":",":","B","o","b"," ","L","e","e">>

\* the columns of the sheets: the canonical headers in spellings the alias
\* table accepts, and one column it does not know
Columns == <<H_Emp_Id_sp, H_Emp_Name, H_Gender, H_Date_of_Joining_DDMMYY, H_Designation,
             H_Reporting_Manager, H_Lead_Reporting, H_Primary_Skill, H_Secondary_skill,
             H_Current_Project, H_Team, H_GENDER>>

\* rows: Emp Id, Emp Name, Gender, Date of Joining, Designation, Reporting
\* Manager, Lead Reporting, Primary Skill, Secondary skill, Current Project,
\* Team, GENDER
RowAlice == <<V_E1_padded, V_Alice, V_F, V_2024_08_15, V_Dev, V_Bob_Lee, NULL, V_Python, NULL, V_P1, V_T1, NULL>>
RowAliceMoved == <<V_E1, V_Alice, NULL, NULL, NULL, V_Carol, V_Bob_Lee, NULL, V_python, V_P1, NULL, NULL>>
RowAliceRedated == <<V_E1, V_Alice, V_F, V_1987_05_02, NULL, NULL, NULL, NULL, NULL, V_P1, NULL, V_X>>
RowBob == <<V_E2, V_Bob_Lee, NULL, NULL, NULL, NULL, NULL, NULL, NULL, NULL, NULL, NULL>>
RowStubId == <<V_stub_manager_E1_Bob_Lee, V_Zed, NULL, NULL, NULL, NULL, NULL, NULL, NULL, NULL, NULL, NULL>>
RowNoId == <<V_blank, V_Alice, V_F, NULL, NULL, NULL, NULL, NULL, NULL, NULL, NULL, NULL>>
RowNoName == <<V_E2, NULL, NULL, NULL, V_Dev, NULL, NULL, NULL, NULL, NULL, NULL, NULL>>

Rows == {RowAlice, RowAliceMoved, RowAliceRedated, RowBob, RowStubId, RowNoId, RowNoName}
RowsGate == {RowAlice, RowNoId, RowNoName}
RowsStub == {RowAlice, RowBob}
RowsAlice == {RowAlice, RowAliceMoved, RowAliceRedated}
RowsRetry == {RowAlice, RowStubId}
RowsFault == {RowAlice, RowStubId, RowNoName}

\* a second layout: a serial-number column (its header spaced as a
\* spreadsheet may have it), the id, the name, and a column 'NAME' that no
\* alias matches
H_Sr_No_spaced == <<"S","r"," "," ","N","o">>
H_NAME == <<"N","A","M","E">>
V_1 == <<"1">>
ColumnsSerial == <<H_Sr_No_spaced, H_Emp_Id, H_Emp_Name, H_NAME>>

\* rows: Sr No, Emp Id, Emp Name, NAME
RowNumbered == <<V_1, V_E1, V_Alice, NULL>>
RowUnnumbered == <<NULL, V_E2, V_Bob_Lee, NULL>>
RowAlias == <<NULL, V_E1, V_Alice, V_Zed>>
RowNameless == <<NULL, V_E1, NULL, NULL>>
RowNamelessAlias == <<NULL, V_E1, NULL, V_Zed>>

RowsSerial == {RowNumbered, RowUnnumbered, RowAlias}
RowsNameless == {RowNumbered, RowNameless, RowNamelessAlias}

MaxRows == 2
MaxRuns == 2

SeqsUpTo(S, n) == UNION {[1..k -> S] : k \in 0..n}

\* the sheets a run may be given
SheetsOf(rows) == {[columns |-> Columns, data |-> d] : d \in SeqsUpTo(rows, MaxRows)}

\* the sheets of the second layout
SheetsSerial(rows) == {[columns |-> ColumnsSerial, data |-> d] : d \in SeqsUpTo(rows, MaxRows)}

\* the records of a sheet's rows as the loop over the rows builds them, the
\* validity test left out: what a caller of upsert other than main may pass
RecordsOf(d) == [i \in DOMAIN d.data |-> RowRecord(d, i)]

\* ---------------------------------------------------------------------
\* main and upsert as processes against one store
\* ---------------------------------------------------------------------

Procs == {"A", "B"}

VARIABLES
  graph,       \* the store's nodes and relationships
  schema,      \* the constraints and indexes the store holds
  privileged,  \* whether the store lets this user change the schema
  pc,          \* where each process is in main / upsert
  df,          \* the sheet each process read
  records,     \* build_records(df)
  stmt,        \* the setup statement each process is at
  err,         \* whether an exception is propagating in the process
  driver,      \* the processes holding an open driver
  session,     \* the processes holding an open session
  started,     \* runs started so far
  start,       \* the graph when the process's run began
  origin       \* the graph before the first attempt of the batch the process is on

vars == <<graph, schema, privileged, pc, df, records, stmt, err, driver, session, started, start, origin>>

Ended == {"idle", "done", "failed", "exit0", "exit1"}
NoSheet == [columns |-> <<>>, data |-> <<>>]

Init ==
  /\ graph = EmptyGraph
  /\ schema = {}
  /\ privileged \in BOOLEAN
  /\ pc = [p \in Procs |-> "idle"]
  /\ df = [p \in Procs |-> NoSheet]
  /\ records = [p \in Procs |-> <<>>]
  /\ stmt = [p \in Procs |-> 0]
  /\ err = [p \in Procs |-> FALSE]
  /\ driver = {}
  /\ session = {}
  /\ started = 0
  /\ start = [p \in Procs |-> EmptyGraph]
  /\ origin = [p \in Procs |-> EmptyGraph]

\* main: pd.read_excel succeeds
Load(p, sheets) ==
  /\ pc[p] \in Ended
  /\ started < MaxRuns
  /\ \E d \in sheets :
       /\ df' = [df EXCEPT ![p] = d]
       /\ origin' = [origin EXCEPT ![p] = IF pc[p] = "failed" /\ d = df[p] THEN @ ELSE graph]
  /\ start' = [start EXCEPT ![p] = graph]
  /\ started' = started + 1
  /\ pc' = [pc EXCEPT ![p] = "build"]
  /\ err' = [err EXCEPT ![p] = FALSE]
  /\ UNCHANGED <<graph, schema, privileged, records, stmt, driver, session>>

\* main: the file or the sheet is missing, sys.exit(1)
LoadError(p) ==
  /\ pc[p] \in Ended
  /\ started < MaxRuns
  /\ started' = started + 1
  /\ pc' = [pc EXCEPT ![p] = "exit1"]
  /\ UNCHANGED <<graph, schema, privileged, df, records, stmt, err, driver, session, start, origin>>

\* upsert(driver, records) called by a program that, unlike main, builds
\* its records without the validity test
CallUpsert(p, sheets) ==
  /\ pc[p] \in Ended
  /\ started < MaxRuns
  /\ \E d \in sheets :
       /\ df' = [df EXCEPT ![p] = d]
       /\ records' = [records EXCEPT ![p] = RecordsOf(d)]
  /\ origin' = [origin EXCEPT ![p] = graph]
  /\ start' = [start EXCEPT ![p] = graph]
  /\ started' = started + 1
  /\ pc' = [pc EXCEPT ![p] = "connect"]
  /\ err' = [err EXCEPT ![p] = FALSE]
  /\ UNCHANGED <<graph, schema, privileged, stmt, driver, session>>

\* main: records = build_records(df); sys.exit(0) when there are none
Build(p) ==
  /\ pc[p] = "build"
  /\ records' = [records EXCEPT ![p] = build_records(df[p])]
  /\ pc' = [pc EXCEPT ![p] = IF records'[p] = <<>> THEN "exit0" ELSE "connect"]
  /\ UNCHANGED <<graph, schema, privileged, df, stmt, err, driver, session, started, start, origin>>

\* main: driver = GraphDatabase.driver(...)
Connect(p) ==
  /\ pc[p] = "connect"
  /\ driver' = driver \cup {p}
  /\ pc' = [pc EXCEPT ![p] = "upsert"]
  /\ UNCHANGED <<graph, schema, privileged, df, records, stmt, err, session, started, start, origin>>

\* upsert: return at once without records, else open the session
OpenSession(p) ==
  /\ pc[p] = "upsert"
  /\ IF records[p] = <<>>
       THEN /\ pc' = [pc EXCEPT ![p] = "close_driver"]
            /\ UNCHANGED <<session, stmt>>
       ELSE /\ session' = session \cup {p}
            /\ stmt' = [stmt EXCEPT ![p] = 1]
            /\ pc' = [pc EXCEPT ![p] = "setup"]
  /\ UNCHANGED <<graph, schema, privileged, df, records, err, driver, started, start, origin>>

\* the statement is applied: the user may change the schema and, for a
\* uniqueness constraint, the data does not already break it
SetupApplies(g, priv, s) == priv /\ ~(s.unique /\ HasDuplicates(g, s))

\* upsert: one setup statement; a failure is printed and ignored
Setup(p) ==
  /\ pc[p] = "setup"
  /\ LET s == SETUP_STATEMENTS[stmt[p]] IN
       schema' = IF SetupApplies(graph, privileged, s) THEN schema \cup {s.name} ELSE schema
  /\ IF stmt[p] < Len(SETUP_STATEMENTS)
       THEN /\ stmt' = [stmt EXCEPT ![p] = @ + 1]
            /\ pc' = pc
       ELSE /\ stmt' = [stmt EXCEPT ![p] = 0]
            /\ pc' = [pc EXCEPT ![p] = Phases[1]]
  /\ UNCHANGED <<graph, privileged, df, records, err, driver, session, started, start, origin>>

PhaseIndex(k) == CHOOSE i \in DOMAIN Phases : Phases[i] = k
AfterPhase(k) == IF PhaseIndex(k) < Len(Phases) THEN Phases[PhaseIndex(k) + 1] ELSE "close_session"

\* RunPhase going on to the next call when the call raised, as if each
\* s.run were wrapped like the setup statements (C13 does not hold of it)
RunPhaseContinuing(p) ==
  /\ pc[p] \in Range(Phases)
  /\ LET res == Phase(pc[p], graph, schema, records[p]) IN
       /\ graph' = res.g
       /\ err' = [err EXCEPT ![p] = ~res.ok]
       /\ pc' = [pc EXCEPT ![p] = AfterPhase(pc[p])]
  /\ UNCHANGED <<schema, privileged, df, records, stmt, driver, session, started, start, origin>>

\* upsert: one s.run of the batch; when it raises, the later calls are
\* skipped and the exception leaves the with block
RunPhase(p) ==
  /\ pc[p] \in Range(Phases)
  /\ LET res == Phase(pc[p], graph, schema, records[p]) IN
       /\ graph' = res.g
       /\ err' = [err EXCEPT ![p] = ~res.ok]
       /\ pc' = [pc EXCEPT ![p] = IF res.ok THEN AfterPhase(pc[p]) ELSE "close_session"]
  /\ UNCHANGED <<schema, privileged, df, records, stmt, driver, session, started, start, origin>>

\* upsert: the store call fails for a reason of the store's (connection
\* lost, server stopped): nothing of the call is committed
StoreError(p) ==
  /\ pc[p] \in Range(Phases)
  /\ err' = [err EXCEPT ![p] = TRUE]
  /\ pc' = [pc EXCEPT ![p] = "close_session"]
  /\ UNCHANGED <<graph, schema, privileged, df, records, stmt, driver, session, started, start, origin>>

\* upsert: the with block closes the session
CloseSession(p) ==
  /\ pc[p] = "close_session"
  /\ session' = session \ {p}
  /\ pc' = [pc EXCEPT ![p] = "close_driver"]
  /\ UNCHANGED <<graph, schema, privileged, df, records, stmt, err, driver, started, start, origin>>

\* CloseDriver without the finally: the driver is closed only when upsert
\* returned (C14 does not hold of it)
CloseDriverOnReturn(p) ==
  /\ pc[p] = "close_driver"
  /\ driver' = IF err[p] THEN driver ELSE driver \ {p}
  /\ pc' = [pc EXCEPT ![p] = IF err[p] THEN "failed" ELSE "print"]
  /\ UNCHANGED <<graph, schema, privileged, df, records, stmt, err, session, started, start, origin>>

\* main: finally: driver.close()
CloseDriver(p) ==
  /\ pc[p] = "close_driver"
  /\ driver' = driver \ {p}
  /\ pc' = [pc EXCEPT ![p] = IF err[p] THEN "failed" ELSE "print"]
  /\ UNCHANGED <<graph, schema, privileged, df, records, stmt, err, session, started, start, origin>>

\* main: print the count of upserted employees
PrintCount(p) ==
  /\ pc[p] = "print"
  /\ pc' = [pc EXCEPT ![p] = "done"]
  /\ UNCHANGED <<graph, schema, privileged, df, records, stmt, err, driver, session, started, start, origin>>

\* main, started while another process may be in its run: the processes of
\* one concurrent pair are given the same sheet, and origin is the graph
\* before the first of them began
LoadSame(p, sheets) ==
  /\ pc[p] \in Ended
  /\ started < MaxRuns
  /\ \E d \in sheets :
       /\ \A q \in Procs \ {p} : pc[q] \notin Ended => d = df[q]
       /\ df' = [df EXCEPT ![p] = d]
  /\ origin' = [origin EXCEPT ![p] =
                  IF \E q \in Procs \ {p} : pc[q] \notin Ended
                    THEN origin[CHOOSE q \in Procs \ {p} : pc[q] \notin Ended]
                    ELSE graph]
  /\ start' = [start EXCEPT ![p] = graph]
  /\ started' = started + 1
  /\ pc' = [pc EXCEPT ![p] = "build"]
  /\ err' = [err EXCEPT ![p] = FALSE]
  /\ UNCHANGED <<graph, schema, privileged, records, stmt, driver, session>>

\* the steps of one process after its sheet is read
Step(p) ==
  \/ Build(p)
  \/ Connect(p)
  \/ OpenSession(p)
  \/ Setup(p)
  \/ RunPhase(p)
  \/ CloseSession(p)
  \/ CloseDriver(p)
  \/ PrintCount(p)

\* one invocation of the loader after the other, on sheets of the given rows
Run(rows) == Load("A", SheetsOf(rows)) \/ LoadError("A") \/ Step("A")

Next == Run(Rows)
Spec == Init /\ [][Next]_vars

NextGate == Run(RowsGate)
SpecGate == Init /\ [][NextGate]_vars

NextStub == Run(RowsStub)
SpecStub == Init /\ [][NextStub]_vars

NextAlice == Run(RowsAlice)
SpecAlice == Init /\ [][NextAlice]_vars

\* invocations whose store calls may fail, each followed by another
NextRetry == Run(RowsRetry) \/ StoreError("A")
SpecRetry == Init /\ [][NextRetry]_vars

\* two invocations at the same time against the same store
NextConcurrent == \E p \in Procs : LoadSame(p, SheetsOf(RowsRetry)) \/ Step(p)
SpecConcurrent == Init /\ [][NextConcurrent]_vars

\* invocations on sheets of the second layout
NextSerial == Load("A", SheetsSerial(RowsSerial)) \/ LoadError("A") \/ Step("A")
SpecSerial == Init /\ [][NextSerial]_vars

\* upsert called with records that did not pass the validity test
NextUpsert ==
  \/ CallUpsert("A", SheetsSerial(RowsNameless))
  \/ Connect("A")
  \/ OpenSession("A")
  \/ Setup("A")
  \/ RunPhase("A")
  \/ CloseSession("A")
  \/ CloseDriver("A")
  \/ PrintCount("A")
SpecUpsert == Init /\ [][NextUpsert]_vars

\* invocations whose store calls may fail, on sheets that may hold no valid
\* row
NextFault == Run(RowsFault) \/ StoreError("A")
SpecFault == Init /\ [][NextFault]_vars

\* ---------------------------------------------------------------------
\* Reading a graph
\* ---------------------------------------------------------------------

NodesOf(g, label) == {i \in DOMAIN g.nodes : g.nodes[i].label = label}
RelsOf(g, type) == {i \in DOMAIN g.rels : g.rels[i].type = type}
NodeProp(g, i, k) == Prop(g.nodes[i].props, k)
RelProp(g, i, k) == Prop(g.rels[i].props, k)

\* a relationship as its type, its properties and the nodes at its ends
RelView(g, i) ==
  <<g.rels[i].type, g.rels[i].props, g.nodes[g.rels[i].from], g.nodes[g.rels[i].to]>>

\* the same nodes and relationships, each as often, whatever their order
SameGraph(g1, g2) ==
  /\ Len(g1.nodes) = Len(g2.nodes)
  /\ Len(g1.rels) = Len(g2.rels)
  /\ \A n \in Range(g1.nodes) \cup Range(g2.nodes) :
       Cardinality({i \in DOMAIN g1.nodes : g1.nodes[i] = n})
         = Cardinality({i \in DOMAIN g2.nodes : g2.nodes[i] = n})
  /\ \A v \in {RelView(g1, i) : i \in DOMAIN g1.rels} \cup {RelView(g2, i) : i \in DOMAIN g2.rels} :
       Cardinality({i \in DOMAIN g1.rels : RelView(g1, i) = v})
         = Cardinality({i \in DOMAIN g2.rels : RelView(g2, i) = v})

\* the process has made all its store calls and none raised
Applied(p) == pc[p] \in {"close_session", "close_driver", "print", "done"} /\ ~err[p]

\* ---------------------------------------------------------------------
\* C1  Idempotence of upsert: once a batch has been applied, applying the
\* identical batch again raises nothing and leaves the same nodes,
\* relationships and property values.
\* ---------------------------------------------------------------------
C1_Idempotent ==
  \A p \in Procs :
     Applied(p) =>
       LET again == RunPhases(1, graph, schema, records[p])
       IN again.ok /\ SameGraph(again.g, graph)

\* C1 where it does hold: with the emp_id constraint in the schema
C1_IdempotentConstrained == "emp_id" \in schema => C1_Idempotent

\* ---------------------------------------------------------------------
\* C2  Validity gate: build_records emits a row's record iff the row's id
\* and name are both non-null after normalization, and every Employee
\* node of the graph has a non-null id and a non-null name.
\* ---------------------------------------------------------------------

\* the value of the row's last column whose header is an alias of the field
CellOf(d, i, field) ==
  LET cols == {j \in DOMAIN d.columns : inv_get(norm_col(d.columns[j])) = field}
  IN IF cols = {} THEN NULL ELSE d.data[i][CHOOSE j \in cols : \A k \in cols : k <= j]

Trimmed(x) == IF x = NULL THEN <<>> ELSE strip(x)
HasIdAndName(d, i) == Trimmed(CellOf(d, i, "emp_id")) # <<>> /\ Trimmed(CellOf(d, i, "name")) # <<>>

Built(p) == pc[p] \notin {"idle", "build", "exit1"}

C2_ValidityGate ==
  /\ \A p \in Procs :
       Built(p) =>
         /\ Len(records[p]) = Cardinality({i \in DOMAIN df[p].data : HasIdAndName(df[p], i)})
         /\ \A i \in DOMAIN df[p].data :
              HasIdAndName(df[p], i) <=> RowRecord(df[p], i) \in Range(records[p])
  /\ \A i \in NodesOf(graph, "Employee") :
       NodeProp(graph, i, K_empId) # NULL /\ NodeProp(graph, i, K_name) # NULL

\* a sheet with a kept row and a dropped row has been applied
C2_Witness ==
  /\ pc["A"] = "done"
  /\ Len(df["A"].data) = 2
  /\ Len(records["A"]) = 1
  /\ NodesOf(graph, "Employee") # {}

\* ---------------------------------------------------------------------
\* C3  REPORTS_TO does not accumulate: each Employee has at most one
\* outgoing REPORTS_TO relationship, and after a batch it points to the
\* manager the last row for that employee names.
\* ---------------------------------------------------------------------
RowsOfEmployee(rows, empId) == SelectSeq(rows, LAMBDA r : r.empId = empId)
LastRow(rows, empId) == RowsOfEmployee(rows, empId)[Len(RowsOfEmployee(rows, empId))]

C3_OneManager ==
  /\ \A e \in NodesOf(graph, "Employee") :
       Cardinality({i \in RelsOf(graph, "REPORTS_TO") : graph.rels[i].from = e}) <= 1
  /\ \A p \in Procs :
       Applied(p) =>
         \A k \in DOMAIN records[p] :
            LET last == LastRow(records[p], records[p][k].empId) IN
            last.managerName # NULL =>
              \A e \in NodesOf(graph, "Employee") :
                 NodeProp(graph, e, K_empId) = last.empId =>
                   \A i \in RelsOf(graph, "REPORTS_TO") :
                      graph.rels[i].from = e => NodeProp(graph, graph.rels[i].to, K_name) = last.managerName

\* ---------------------------------------------------------------------
\* C10  Merge-key uniqueness: no two Employee nodes share an id, and no
\* two Skill, Project or Team nodes share a name.
\* ---------------------------------------------------------------------
UniqueKey(g, label, key) ==
  \A i, j \in NodesOf(g, label) :
     i # j /\ NodeProp(g, i, key) # NULL => NodeProp(g, i, key) # NodeProp(g, j, key)

C10_MergeKeysUnique ==
  /\ UniqueKey(graph, "Employee", K_empId)
  /\ UniqueKey(graph, "Skill", K_name)
  /\ UniqueKey(graph, "Project", K_name)
  /\ UniqueKey(graph, "Team", K_name)

\* C10 where it does hold: in a store that lets the loader create the
\* emp_id constraint
C10_UniqueWhenConstrained == privileged => C10_MergeKeysUnique

\* ---------------------------------------------------------------------
\* C4  Stub-then-resolve: batch 1 holds only E1 'Alice' with manager
\* 'Bob Lee', batch 2 only the real row E2 'Bob Lee'.
\* ---------------------------------------------------------------------
SheetOf(data) == [columns |-> Columns, data |-> data]

\* the graph batch 1 leaves in an empty store
AfterBatch1 == RunPhases(1, EmptyGraph, schema, build_records(SheetOf(<<RowAlice>>))).g

\* batch 2 has been applied to it
StubThenResolve(p) ==
  /\ pc[p] = "done"
  /\ start[p] = AfterBatch1
  /\ df[p] = SheetOf(<<RowBob>>)

NamedBobLee == {i \in NodesOf(graph, "Employee") : NodeProp(graph, i, K_name) = V_Bob_Lee}
AliceNodes == {i \in NodesOf(graph, "Employee") : NodeProp(graph, i, K_empId) = V_E1}
AliceReportsTo == {graph.rels[i].to : i \in {j \in RelsOf(graph, "REPORTS_TO") : graph.rels[j].from \in AliceNodes}}

\* C4 as claimed: the real row and the stub merge into one node
C4_StubMerged ==
  \A p \in Procs :
     StubThenResolve(p) =>
       /\ Cardinality(NamedBobLee) = 1
       /\ Cardinality(NodesOf(graph, "Employee")) = 2
       /\ AliceReportsTo = NamedBobLee

\* C4 as amended: the real row is merged by id, so it becomes a second node
\* named 'Bob Lee' beside the stub (3 Employee nodes in total), and
\* Alice's only REPORTS_TO relationship still points to the stub
C4_StubNotResolved ==
  \A p \in Procs :
     StubThenResolve(p) =>
       /\ Cardinality(NamedBobLee) = 2
       /\ Cardinality(NodesOf(graph, "Employee")) = 3
       /\ {NodeProp(graph, i, K_empId) : i \in NamedBobLee} = {V_E2, StubId(S_stub_manager, V_E1, V_Bob_Lee)}
       /\ {NodeProp(graph, i, K_empId) : i \in AliceReportsTo} = {StubId(S_stub_manager, V_E1, V_Bob_Lee)}
       /\ Cardinality({j \in RelsOf(graph, "REPORTS_TO") : graph.rels[j].from \in AliceNodes}) = 1

C4_Witness == StubThenResolve("A")

\* ---------------------------------------------------------------------
\* C5  Last-write-wins for the core scalars of an Employee that existed
\* before the run, in the state the employees call leaves.
\* ---------------------------------------------------------------------
AfterEmployees(p) == pc[p] = "team"

\* the Employee nodes that existed when the run began and that a record names
ExistingNamed(p, empId) ==
  {i \in NodesOf(start[p], "Employee") : NodeProp(start[p], i, K_empId) = empId}

\* C5 as claimed: each of the three is exactly the incoming value, also null
C5_LastWriteWins ==
  \A p \in Procs :
     AfterEmployees(p) =>
       \A k \in DOMAIN records[p] :
          LET last == LastRow(records[p], records[p][k].empId) IN
          \A i \in ExistingNamed(p, last.empId) :
             /\ NodeProp(graph, i, K_gender) = last.gender
             /\ NodeProp(graph, i, K_designation) = last.designation
             /\ NodeProp(graph, i, K_doj) = (IF last.doj = NULL THEN NULL ELSE date(last.doj))

\* the value a passthrough key of that name supplies, else the field's
Incoming(r, key, field) == IF key \in DOMAIN r.extra THEN r.extra[key] ELSE field

\* doj after the rows of one employee, in order: a row's date when it has
\* one (or a passthrough 'doj'), else what was there
DojAfter(old, rows) ==
  FoldSeq(LAMBDA d, r : IF K_doj \in DOMAIN r.extra THEN r.extra[K_doj]
                        ELSE IF r.doj # NULL THEN date(r.doj) ELSE d,
          old, rows)

\* C5 as amended: gender and designation become the incoming value, also
\* when it is null, unless the record's extra mapping has a key of that
\* name, which then is what is stored; date_of_joining becomes the
\* incoming value only when that is non-null and is otherwise unchanged
C5_LastWriteWinsButDoj ==
  \A p \in Procs :
     AfterEmployees(p) =>
       \A k \in DOMAIN records[p] :
          LET last == LastRow(records[p], records[p][k].empId) IN
          \A i \in ExistingNamed(p, last.empId) :
             /\ NodeProp(graph, i, K_gender) = Incoming(last, K_gender, last.gender)
             /\ NodeProp(graph, i, K_designation) = Incoming(last, K_designation, last.designation)
             /\ NodeProp(graph, i, K_doj)
                  = DojAfter(NodeProp(start[p], i, K_doj), RowsOfEmployee(records[p], last.empId))

\* an existing Employee with a date of joining has been given a record
\* whose gender, designation and date are null
C5_Witness ==
  /\ AfterEmployees("A")
  /\ \E k \in DOMAIN records["A"] :
       LET last == LastRow(records["A"], records["A"][k].empId) IN
       /\ last.gender = NULL /\ last.designation = NULL /\ last.doj = NULL
       /\ \E i \in ExistingNamed("A", last.empId) :
            /\ NodeProp(start["A"], i, K_designation) # NULL
            /\ NodeProp(graph, i, K_designation) = NULL
            /\ NodeProp(graph, i, K_doj) # NULL

\* ---------------------------------------------------------------------
\* C6  WORKS_ON.since is write-once: a since that is set is never changed
\* by any later step.
\* ---------------------------------------------------------------------
C6_SinceWriteOnce ==
  [][\A i \in RelsOf(graph, "WORKS_ON") :
       RelProp(graph, i, K_since) # NULL => RelProp(graph', i, K_since) = RelProp(graph, i, K_since)]_vars

\* the date_of_joining of the first row of the batch for the pair at the
\* ends of relationship i that has one, as a date; NULL if there is none
FirstDate(g, i, rows) ==
  LET mine == SelectSeq(rows, LAMBDA r :
                /\ r.empId = NodeProp(g, g.rels[i].from, K_empId)
                /\ r.project = NodeProp(g, g.rels[i].to, K_name)
                /\ r.doj # NULL)
  IN IF mine = <<>> THEN NULL ELSE date(mine[1].doj)

\* a batch with another date_of_joining for the pair has been applied to a
\* WORKS_ON relationship that had its since
C6_Witness ==
  /\ pc["A"] = "close_session" /\ ~err["A"]
  /\ \E i \in RelsOf(start["A"], "WORKS_ON") :
       /\ RelProp(start["A"], i, K_since) # NULL
       /\ FirstDate(graph, i, records["A"]) \notin {NULL, RelProp(start["A"], i, K_since)}
       /\ RelProp(graph, i, K_since) = RelProp(start["A"], i, K_since)

\* ---------------------------------------------------------------------
\* C7  WORKS_ON.since is fixed when the relationship is created.
\* ---------------------------------------------------------------------

\* C7 as claimed: whatever since is at creation, absent included, it stays
C7_SinceFixedAtCreation ==
  [][\A i \in RelsOf(graph, "WORKS_ON") : RelProp(graph', i, K_since) = RelProp(graph, i, K_since)]_vars

\* the step is a projects call that did not raise
ProjectsApplied(p) == pc[p] = "projects" /\ pc'[p] = "close_session" /\ ~err'[p]

\* C7 as amended: a relationship is created with the date_of_joining of the
\* batch that creates it; one that has no since takes the date_of_joining
\* of the first later batch that supplies one for the pair; a since that is
\* set stays
C7_SinceFixedOnceSet ==
  [][\A i \in RelsOf(graph', "WORKS_ON") :
       IF i \in DOMAIN graph.rels /\ RelProp(graph, i, K_since) # NULL
         THEN RelProp(graph', i, K_since) = RelProp(graph, i, K_since)
         ELSE IF \E p \in Procs : ProjectsApplied(p)
           THEN \E p \in Procs :
                  ProjectsApplied(p) /\ RelProp(graph', i, K_since) = FirstDate(graph', i, records[p])
           ELSE i \in DOMAIN graph.rels /\ RelProp(graph', i, K_since) = NULL]_vars

\* a relationship created without since has been given one by a later batch
C7_Witness ==
  /\ pc["A"] = "close_session" /\ ~err["A"]
  /\ \E i \in RelsOf(start["A"], "WORKS_ON") :
       RelProp(start["A"], i, K_since) = NULL /\ RelProp(graph, i, K_since) # NULL

\* ---------------------------------------------------------------------
\* C8  Crash recovery by re-run: a batch whose run was cut short and that
\* is then run again to completion leaves what one uninterrupted run
\* from the graph before the first attempt leaves.
\* ---------------------------------------------------------------------
C8_CrashRecovery ==
  \A p \in Procs :
     pc[p] = "done" => SameGraph(graph, RunPhases(1, origin[p], schema, records[p]).g)

\* C8 where it does hold
C8_CrashRecoveryConstrained == privileged => C8_CrashRecovery

\* ---------------------------------------------------------------------
\* C9  Concurrent runs converge: two runs of one batch, their store calls
\* interleaved, leave what one run of the batch leaves.
\* ---------------------------------------------------------------------
C9_Converges ==
  (/\ \A p \in Procs : pc[p] = "done"
   /\ df["A"] = df["B"]
   /\ origin["A"] = origin["B"])
  => SameGraph(graph, RunPhases(1, origin["A"], schema, records["A"]).g)

\* C9 where it does hold
C9_ConvergesConstrained == privileged => C9_Converges

\* ---------------------------------------------------------------------
\* C11  Name never regresses: the employees call leaves the name of an
\* existing Employee unchanged when the records for it have a null name,
\* and no name goes from non-null to null.
\* ---------------------------------------------------------------------

\* the employees call of the process's batch has just been applied
EmployeesApplied(p) == pc[p] = "employees" /\ pc'[p] = "team"

\* the records of the batch for the id of node i of g
RecordsFor(g, i, rows) == RowsOfEmployee(rows, NodeProp(g, i, K_empId))

\* every record of the batch for node i has a null name, and there is one
OnlyNameless(g, i, rows) ==
  /\ RecordsFor(g, i, rows) # <<>>
  /\ \A k \in DOMAIN RecordsFor(g, i, rows) : RecordsFor(g, i, rows)[k].name = NULL

NoNameAlias(g, i, rows) ==
  \A k \in DOMAIN RecordsFor(g, i, rows) : K_name \notin DOMAIN RecordsFor(g, i, rows)[k].extra

\* C11 where it does hold: the name is kept when in addition no record for
\* the Employee has 'name' among its passthrough keys, and whatever the
\* records hold no name goes from non-null to null
C11_NameKeptWithoutAlias ==
  [][\A p \in Procs :
       EmployeesApplied(p) =>
         \A i \in NodesOf(graph, "Employee") :
            /\ NodeProp(graph, i, K_name) # NULL => NodeProp(graph', i, K_name) # NULL
            /\ (/\ NodeProp(graph, i, K_name) # NULL
                /\ OnlyNameless(graph, i, records[p])
                /\ NoNameAlias(graph, i, records[p]))
                 => NodeProp(graph', i, K_name) = NodeProp(graph, i, K_name)]_vars

\* a named Employee has been given a record with a null name and no
\* passthrough 'name', and is named as before
C11_Witness ==
  /\ pc["A"] = "team"
  /\ \E i \in NodesOf(start["A"], "Employee") :
       /\ NodeProp(start["A"], i, K_name) # NULL
       /\ OnlyNameless(start["A"], i, records["A"])
       /\ NoNameAlias(start["A"], i, records["A"])
       /\ NodeProp(graph, i, K_name) = NodeProp(start["A"], i, K_name)

\* ---------------------------------------------------------------------
\* C12  Index-column blocklist: a column whose whitespace-normalized header
\* is in the blocklist of index-style columns contributes no key to a
\* record's extra mapping and no property to an Employee.
\* ---------------------------------------------------------------------

\* the columns of the sheet whose normalized header is in the blocklist
Blocklisted(d) == {c \in Range(d.columns) : norm_col(c) \in ignore_cols}

\* C12 as claimed
C12_BlocklistNotPassthrough ==
  \A p \in Procs :
     \A c \in Blocklisted(df[p]) :
        /\ Built(p) => \A k \in DOMAIN records[p] : snake(c) \notin DOMAIN records[p][k].extra
        /\ \A i \in NodesOf(graph, "Employee") : NodeProp(graph, i, snake(c)) = NULL

\* what does hold of the blocklist: the set passthrough_cols, which nothing
\* reads, leaves the blocklisted columns out
C12_BlocklistComputedOnly ==
  \A p \in Procs :
     \A c \in Blocklisted(df[p]) : norm_col(c) \notin passthrough_cols(df[p])

\* ---------------------------------------------------------------------
\* C13  Phase failure is fatal and ordered: the store calls run in the
\* stated order (employee core, team link, manager/lead edges, skills,
\* projects), each only after the one before succeeded; once a call has
\* failed no further call is made, the store is not written again, and the
\* run ends with the error and without printing the count; a setup
\* statement, failing or not, leads on to the first phase.
\* ---------------------------------------------------------------------

\* the number the phase has in the stated order; manager and lead edges are
\* the two calls of phase 3
StatedPhase(k) ==
  CASE k = "employees" -> 1
    [] k = "team" -> 2
    [] k = "manager" -> 3
    [] k = "lead" -> 3
    [] k = "skills" -> 4
    [] k = "projects" -> 5

StoreCalls == {"employees", "team", "manager", "lead", "skills", "projects"}

C13_FatalAndOrdered ==
  [][\A p \in Procs :
       \* a call begins: no error is pending, and it is the first phase after
       \* setup or the successor of the call that just returned
       /\ (pc'[p] # pc[p] /\ pc'[p] \in StoreCalls) =>
            /\ ~err[p] /\ ~err'[p]
            /\ \/ pc[p] = "setup" /\ StatedPhase(pc'[p]) = 1
               \/ /\ pc[p] \in StoreCalls
                  /\ \/ StatedPhase(pc'[p]) = StatedPhase(pc[p]) + 1 /\ pc[p] # "manager"
                     \/ pc[p] = "manager" /\ pc'[p] = "lead"
       \* the last call alone leads to a normal end of upsert
       /\ (pc[p] \in StoreCalls /\ pc'[p] \notin StoreCalls /\ ~err'[p]) => pc[p] = "projects"
       \* a call fails: upsert is left at once
       /\ (pc[p] \in StoreCalls /\ err'[p]) => pc'[p] = "close_session"
       \* with the error pending nothing more is written and the run ends failed
       /\ (err[p] /\ pc[p] \notin Ended) =>
            /\ err'[p]
            /\ graph' = graph
            /\ pc'[p] \in {pc[p], "close_session", "close_driver", "failed"}
       /\ pc'[p] \in {"print", "done"} => ~err'[p]
       \* a setup statement raises nothing into upsert
       /\ pc[p] = "setup" => ~err'[p] /\ pc'[p] \in {"setup", "employees"}]_vars

\* a run whose setup statements all failed has applied its employees and
\* then ended on a failed call
C13_Witness ==
  /\ pc["A"] = "failed"
  /\ err["A"]
  /\ ~privileged
  /\ schema = {}
  /\ start["A"] = EmptyGraph
  /\ NodesOf(graph, "Employee") # {}

\* ---------------------------------------------------------------------
\* C14  Connection release: a run that has ended, with the count printed or
\* with a store error, holds neither a session nor a driver, and a session
\* is held only under a driver; a run whose sheet gives no valid record
\* ends with exit code 0, and only such a run does, holding no connection.
\* ---------------------------------------------------------------------
C14_ConnectionReleased ==
  \A p \in Procs :
     /\ pc[p] \in Ended \cup {"print"} => p \notin driver /\ p \notin session
     /\ p \in session => p \in driver
     /\ p \in driver <=> pc[p] \in {"upsert", "setup", "close_session", "close_driver"} \cup StoreCalls
     /\ Built(p) => (pc[p] = "exit0" <=> \A i \in DOMAIN df[p].data : ~HasIdAndName(df[p], i))

\* a run has ended on a failed store call and holds nothing; the run
\* before it wrote to the store
C14_Witness ==
  /\ pc["A"] = "failed"
  /\ err["A"]
  /\ started = 2
  /\ start["A"] # EmptyGraph
  /\ "A" \notin driver
  /\ "A" \notin session

\* a run has stopped at the validity gate: its sheet has a row, none valid
C14_WitnessNoValidRow ==
  /\ pc["A"] = "exit0"
  /\ df["A"].data # <<>>
  /\ "A" \notin driver

\* ---------------------------------------------------------------------
\* C15  Passthrough properties never overwrite canonical ones: after the
\* employees call, the name, gender, designation and doj of every Employee
\* the batch names are what the canonical fields of its records make them,
\* whatever the records' extra mappings hold.
\* ---------------------------------------------------------------------

\* the Employee nodes with the id
WithId(g, empId) == {i \in NodesOf(g, "Employee") : NodeProp(g, i, K_empId) = empId}

\* the doj node i had when the run began, null for a node made since
DojBefore(p, i) == IF i \in DOMAIN start[p].nodes THEN NodeProp(start[p], i, K_doj) ELSE NULL

\* doj after the rows of one employee, by their canonical field alone
DojCanonical(old, rows) ==
  FoldSeq(LAMBDA d, r : IF r.doj # NULL THEN date(r.doj) ELSE d, old, rows)

\* C15 as claimed
C15_CanonicalNotOverwritten ==
  \A p \in Procs :
     AfterEmployees(p) =>
       \A k \in DOMAIN records[p] :
          LET last == LastRow(records[p], records[p][k].empId) IN
          \A i \in WithId(graph, last.empId) :
             /\ NodeProp(graph, i, K_name) = last.name
             /\ NodeProp(graph, i, K_gender) = last.gender
             /\ NodeProp(graph, i, K_designation) = last.designation
             /\ NodeProp(graph, i, K_doj)
                  = DojCanonical(DojBefore(p, i), RowsOfEmployee(records[p], last.empId))

\* the values the records of one employee give for 'name' in their extra
\* mappings
NameAliases(rows) == {rows[k].extra[K_name] : k \in {j \in DOMAIN rows : K_name \in DOMAIN rows[j].extra}}

\* what does hold: gender, designation and doj are the canonical values
\* unless the record's extra mapping has a key of that name, which then is
\* what is stored; the name is the canonical one when no record of the
\* batch for the employee has 'name' in its extra mapping, and else may be
\* one of those values
C15_CanonicalUnlessAlias ==
  \A p \in Procs :
     AfterEmployees(p) =>
       \A k \in DOMAIN records[p] :
          LET last == LastRow(records[p], records[p][k].empId) IN
          \A i \in WithId(graph, last.empId) :
             /\ NodeProp(graph, i, K_name)
                  \in {last.name} \cup NameAliases(RowsOfEmployee(records[p], last.empId))
             /\ NodeProp(graph, i, K_gender) = Incoming(last, K_gender, last.gender)
             /\ NodeProp(graph, i, K_designation) = Incoming(last, K_designation, last.designation)
             /\ NodeProp(graph, i, K_doj)
                  = DojAfter(DojBefore(p, i), RowsOfEmployee(records[p], last.empId))
====
